---- MODULE Spec2Model ----
(***************************************************************************)
(* ethertracer: segment-based code/data classification of EVM bytecode.    *)
(*                                                                         *)
(* Arrays (the bytecode, the numpy masks, the segment id vector) are       *)
(* functions over the 0-based positions 0..N-1, so that a position is the  *)
(* same number here and in the Python source.  Python lists built by       *)
(* append (the results of get_compound_subsets) are sequences whose        *)
(* elements are 0-based positions.                                         *)
(***************************************************************************)
EXTENDS Integers, Sequences, FiniteSets

(***************************************************************************)
(* Bounds of the model.                                                    *)
(***************************************************************************)
MaxLen == 5
MaxMaskLen == 4
MaxFnLen == 4

(***************************************************************************)
(* Opcode table (ethertracer.opcodes).                                     *)
(***************************************************************************)
STOP == 0
JUMP == 86
JUMPDEST == 91
PUSH1 == 96
PUSH32 == 127
RETURN == 243
SELFDESTRUCT == 255

BYTECODES == (0 .. 11) \cup (16 .. 29) \cup {32} \cup (48 .. 63) \cup (64 .. 69)
             \cup (80 .. 91) \cup (96 .. 127) \cup (128 .. 143)
             \cup (144 .. 159) \cup (160 .. 164) \cup (240 .. 245)
             \cup {250, 253, 255}

(***************************************************************************)
(* The bytes the bytecodes of the model are drawn from: the terminators    *)
(* STOP, JUMP and RETURN, JUMPDEST, PUSH1 and PUSH2, an undefined byte     *)
(* (0x0c) and a small operand value (0x03).  FnAlphabet serves the calls   *)
(* of validate_segment_jumpdests on its own.                               *)
(***************************************************************************)
Alphabet == {STOP, 3, 12, JUMP, JUMPDEST, PUSH1, PUSH1 + 1, RETURN}
FnAlphabet == {STOP, 1, JUMPDEST, PUSH1}

Arrays(S, n) == UNION {[0 .. (k - 1) -> S] : k \in 0 .. n}

len(a) == Cardinality(DOMAIN a)

EmptyArray == [i \in {} |-> FALSE]

(***************************************************************************)
(* A call that can raise returns [raised |-> the exception or "",          *)
(* value |-> what it returns when it does not raise].                      *)
(***************************************************************************)
Returned(v) == [raised |-> "", value |-> v]
Raised(e) == [raised |-> e, value |-> <<>>]

(***************************************************************************)
(* numpy, pointwise.  np.invert is applied to the array tag_push_data      *)
(* makes of a Python list: booleans when the list has elements, and the    *)
(* float array of np.array([]) when it has none, which np.invert rejects   *)
(* with TypeError.                                                         *)
(***************************************************************************)
logical_and(a, b) == [i \in DOMAIN a |-> a[i] /\ b[i]]
logical_xor(a, b) == [i \in DOMAIN a |-> a[i] # b[i]]
invert(a) ==
  IF len(a) = 0 THEN Raised("TypeError")
  ELSE Returned([i \in DOMAIN a |-> ~a[i]])
argwhere(a) == {i \in DOMAIN a : a[i]}

(***************************************************************************)
(* tagger.py                                                               *)
(***************************************************************************)
tag_invalid_mnemonics(machine_code) ==
  [i \in DOMAIN machine_code |-> machine_code[i] \notin BYTECODES]

tag_mnemonic(machine_code, code) ==
  [i \in DOMAIN machine_code |-> machine_code[i] = code]

RECURSIVE tag_push_data_loop(_, _, _)
tag_push_data_loop(machine_code, i, tags) ==
  IF ~(i < len(machine_code)) THEN tags
  ELSE LET instruction == machine_code[i] IN
       IF instruction >= PUSH1 /\ instruction <= PUSH32
       THEN LET identified_push_number == (instruction - PUSH1) + 1
                marked == [j \in DOMAIN tags |->
                             tags[j] \/ (j >= i + 1 /\ j < i + identified_push_number + 1)]
            IN  tag_push_data_loop(machine_code, i + identified_push_number + 1, marked)
       ELSE tag_push_data_loop(machine_code, i + 1, tags)

(* The same scan without the jump over the operand block. *)
RECURSIVE tag_push_data_noskip(_, _, _)
tag_push_data_noskip(machine_code, i, tags) ==
  IF ~(i < len(machine_code)) THEN tags
  ELSE LET instruction == machine_code[i] IN
       IF instruction >= PUSH1 /\ instruction <= PUSH32
       THEN LET identified_push_number == (instruction - PUSH1) + 1
                marked == [j \in DOMAIN tags |->
                             tags[j] \/ (j >= i + 1 /\ j < i + identified_push_number + 1)]
            IN  tag_push_data_noskip(machine_code, i + 1, marked)
       ELSE tag_push_data_noskip(machine_code, i + 1, tags)

tag_push_data_mutant(machine_code) ==
  tag_push_data_noskip(machine_code, 0, [j \in DOMAIN machine_code |-> FALSE])

tag_push_data(machine_code) ==
  tag_push_data_loop(machine_code, 0, [j \in DOMAIN machine_code |-> FALSE])

(***************************************************************************)
(* helpers.py                                                              *)
(***************************************************************************)
(* The positions of list that hold the indicator True, in increasing order. *)
RECURSIVE index_subset_element_from(_, _)
index_subset_element_from(list, i) ==
  IF ~(i < len(list)) THEN <<>>
  ELSE (IF list[i] THEN <<i>> ELSE <<>>) \o index_subset_element_from(list, i + 1)

(* The subset number given to each element of index_subset_element, and     *)
(* number_of_subsets after the loop.                                        *)
RECURSIVE subsets_from(_, _, _)
subsets_from(ise, i, number_of_subsets) ==
  IF i > Len(ise) THEN [subsets |-> <<>>, number_of_subsets |-> number_of_subsets]
  ELSE LET next == IF i < Len(ise) /\ ise[i + 1] - ise[i] > 1
                   THEN number_of_subsets + 1 ELSE number_of_subsets
           rest == subsets_from(ise, i + 1, next)
       IN  [subsets |-> <<number_of_subsets>> \o rest.subsets,
            number_of_subsets |-> rest.number_of_subsets]

RECURSIVE members_of_subset(_, _, _, _)
members_of_subset(ise, subsets, n, j) ==
  IF j > Len(subsets) THEN <<>>
  ELSE (IF subsets[j] = n THEN <<ise[j]>> ELSE <<>>)
       \o members_of_subset(ise, subsets, n, j + 1)

get_compound_subsets(list) ==
  LET ise == index_subset_element_from(list, 0)
      s == subsets_from(ise, 1, 0)
  IN  [n \in 1 .. (s.number_of_subsets + 1) |->
         members_of_subset(ise, s.subsets, n - 1, 1)]

(* f'{b:08b}': the eight binary digits of a byte, most significant first. *)
Bits8(b) == [k \in 1 .. 8 |-> (b \div (2 ^ (8 - k))) % 2]

RECURSIVE join_bits(_, _)
join_bits(bytes, i) ==
  IF i > Len(bytes) THEN <<>> ELSE Bits8(bytes[i]) \o join_bits(bytes, i + 1)

(* int(s, 2): a Python integer, of any size; ValueError when s has no      *)
(* digit.  The bytecodes of the model hold PUSH1 and PUSH2 only, so every  *)
(* immediate also fits the int64 of the numpy arrays it is stored in.      *)
RECURSIVE base2_digits(_, _)
base2_digits(bits, n) ==
  IF n = 0 THEN 0 ELSE 2 * base2_digits(bits, n - 1) + bits[n]

int_base2(bits) ==
  IF Len(bits) = 0 THEN Raised("ValueError")
  ELSE Returned(base2_digits(bits, Len(bits)))

(* raises ValueError for an empty list of bytes *)
compound_bytes_to_integer(bytes) ==
  LET compound_bits == join_bits(bytes, 1)
  IN  int_base2(compound_bits)

(* machine_code[a:b + 1] as a list *)
slice(machine_code, a, b) == [k \in 1 .. (b - a + 1) |-> machine_code[a + k - 1]]

RECURSIVE segment_list_loop(_, _, _, _)
segment_list_loop(flags_segment_start, flags_segment_end, i, segment_counter) ==
  IF ~(i < len(flags_segment_start)) THEN <<>>
  ELSE IF flags_segment_start[i]
       THEN <<segment_counter + 1>>
            \o segment_list_loop(flags_segment_start, flags_segment_end, i + 1,
                                 segment_counter + 1)
       ELSE IF flags_segment_end[i]
       THEN <<segment_counter>>
            \o segment_list_loop(flags_segment_start, flags_segment_end, i + 1,
                                 segment_counter + 1)
       ELSE <<segment_counter>>
            \o segment_list_loop(flags_segment_start, flags_segment_end, i + 1,
                                 segment_counter)

(* A start flag that does not open a new id. *)
RECURSIVE segment_list_mutant_loop(_, _, _, _)
segment_list_mutant_loop(flags_segment_start, flags_segment_end, i, segment_counter) ==
  IF ~(i < len(flags_segment_start)) THEN <<>>
  ELSE IF flags_segment_start[i]
       THEN <<segment_counter>>
            \o segment_list_mutant_loop(flags_segment_start, flags_segment_end, i + 1,
                                        segment_counter)
       ELSE IF flags_segment_end[i]
       THEN <<segment_counter>>
            \o segment_list_mutant_loop(flags_segment_start, flags_segment_end, i + 1,
                                        segment_counter + 1)
       ELSE <<segment_counter>>
            \o segment_list_mutant_loop(flags_segment_start, flags_segment_end, i + 1,
                                        segment_counter)

ToArray(s) == [i \in 0 .. (Len(s) - 1) |-> s[i + 1]]

segment_list_mutant(flags_segment_start, flags_segment_end) ==
  ToArray(segment_list_mutant_loop(flags_segment_start, flags_segment_end, 0, 0))

segment_list(flags_segment_start, flags_segment_end) ==
  ToArray(segment_list_loop(flags_segment_start, flags_segment_end, 0, 0))

(***************************************************************************)
(* analyzer.py                                                             *)
(***************************************************************************)

segment_code(machine_code, start_flags_mask, end_flags_mask) ==
  segment_list(start_flags_mask, end_flags_mask)

tag_valid_segments(segments, validation_mask, invalid_indicator) ==
  LET indices == {i \in DOMAIN segments : validation_mask[i] = invalid_indicator}
      invalid_segment_numbers == {segments[i] : i \in indices}
  IN  [i \in DOMAIN segments |-> ~(segments[i] \in invalid_segment_numbers)]

validate_segment_mnemonics(machine_code, segments, invalid_mnemonics_mask) ==
  tag_valid_segments(segments, invalid_mnemonics_mask, TRUE)

(* set[0] on an empty list raises IndexError. *)
HasEmptySet(datasets_indices) ==
  \E n \in 1 .. Len(datasets_indices) : datasets_indices[n] = <<>>

(* The loop of _get_pushjump_data from the n-th set on.  It is entered     *)
(* with sets that have an element, so the slice is not empty and           *)
(* compound_bytes_to_integer returns.                                      *)
RECURSIVE pushjump_data_from(_, _, _, _)
pushjump_data_from(machine_code, jumps_mask, datasets_indices, n) ==
  IF n > Len(datasets_indices) THEN <<>>
  ELSE LET set == datasets_indices[n]
           set_start == set[1]
           set_end == set[Len(set)]
           found == set_end + 1 < len(machine_code) /\ jumps_mask[set_end + 1]
       IN  (IF found
            THEN << <<set_end + 1,
                      compound_bytes_to_integer(slice(machine_code, set_start, set_end)).value>> >>
            ELSE <<>>)
           \o pushjump_data_from(machine_code, jumps_mask, datasets_indices, n + 1)

get_pushjump_data(machine_code, push_data_mask, jumps_mask) ==
  LET datasets_indices == get_compound_subsets(push_data_mask)
  IN  IF HasEmptySet(datasets_indices) THEN Raised("IndexError")
      ELSE Returned(pushjump_data_from(machine_code, jumps_mask, datasets_indices, 1))

(* pushjumps[:, 1] on the array of an empty list, which has one dimension, *)
(* raises IndexError.                                                       *)
validate_segment_jumps(machine_code, segments, push_data_mask, jumps_mask) ==
  LET got == get_pushjump_data(machine_code, push_data_mask, jumps_mask)
      pushjumps == got.value
  IN  IF got.raised # "" THEN got
      ELSE IF pushjumps = <<>> THEN Raised("IndexError")
      ELSE LET invalid_jump_addresses ==
                 {pushjumps[n][1] : n \in {m \in 1 .. Len(pushjumps) :
                                             pushjumps[m][2] > len(machine_code)}}
               invalid_jumps_mask ==
                 [i \in DOMAIN machine_code |-> i \in invalid_jump_addresses]
           IN  Returned(tag_valid_segments(segments, invalid_jumps_mask, TRUE))

(* The loop of _get_push_data from the n-th set on, on sets that have an   *)
(* element: the slice is not empty.                                        *)
RECURSIVE push_data_from(_, _, _)
push_data_from(machine_code, datasets_indices, n) ==
  IF n > Len(datasets_indices) THEN <<>>
  ELSE LET set == datasets_indices[n]
           set_start == set[1]
           set_end == set[Len(set)]
       IN  (IF set_end + 1 < len(machine_code)
            THEN <<compound_bytes_to_integer(slice(machine_code, set_start, set_end)).value>>
            ELSE <<>>)
           \o push_data_from(machine_code, datasets_indices, n + 1)

get_push_data(machine_code, push_data_mask) ==
  LET datasets_indices == get_compound_subsets(push_data_mask)
  IN  IF HasEmptySet(datasets_indices) THEN Raised("IndexError")
      ELSE Returned(push_data_from(machine_code, datasets_indices, 1))

(* set(push_data) *)
set_of(list) == {list[n] : n \in 1 .. Len(list)}

(* set(push_data).intersection(set(jumpdest_indices - bias)) *)
hits_of_bias(push_data, jumpdest_indices, bias) ==
  set_of(push_data) \cap {j - bias : j \in jumpdest_indices}

(* The loop over the starting points, in increasing order: st holds the    *)
(* jumpdest_indices still to reach and the valid_jumpdest_mask so far.      *)
RECURSIVE valid_jumpdests_loop(_, _, _, _)
valid_jumpdests_loop(push_data, starting_points, jumpdest_indices, valid_jumpdest_mask) ==
  IF starting_points = {} THEN valid_jumpdest_mask
  ELSE LET bias == CHOOSE b \in starting_points : \A c \in starting_points : b <= c
           valid_jumpdests ==
             {v + bias : v \in hits_of_bias(push_data, jumpdest_indices, bias)}
       IN  valid_jumpdests_loop(push_data, starting_points \ {bias},
                                jumpdest_indices \ valid_jumpdests,
                                [j \in DOMAIN valid_jumpdest_mask |->
                                   valid_jumpdest_mask[j] \/ j \in valid_jumpdests])

tag_valid_jumpdests_to_starting_points(machine_code, starting_points_mask, push_data_mask, jumpdests_mask) ==
  LET got == get_push_data(machine_code, push_data_mask)
  IN  IF got.raised # "" THEN got
      ELSE Returned(valid_jumpdests_loop(got.value, argwhere(starting_points_mask),
                                         argwhere(jumpdests_mask),
                                         [i \in DOMAIN machine_code |-> FALSE]))

validate_segment_jumpdests(machine_code, segments, push_data_mask, jumpdests_mask, contract_entrance_mask) ==
  LET got == tag_valid_jumpdests_to_starting_points(machine_code, contract_entrance_mask,
                                                    push_data_mask, jumpdests_mask)
      valid_jumpdests_mask == got.value
      invalid_jumpdests_mask == logical_xor(jumpdests_mask, valid_jumpdests_mask)
  IN  IF got.raised # "" THEN got
      ELSE Returned(tag_valid_segments(segments, invalid_jumpdests_mask, TRUE))

(***************************************************************************)
(* search_contract_starts.  The locals of the loop are a record st:        *)
(* hit_ratio is the pair <<numerator, denominator>> of the quotient the     *)
(* code computes, <<0, 1>> before the first round; a zero denominator is    *)
(* the nan that numpy gives for 0.0 / 0.                                    *)
(***************************************************************************)
StopThresholdNum == 98
StopThresholdDen == 100

search_init(machine_code, jumpdests_mask) ==
  [starting_points_mask |-> [i \in DOMAIN machine_code |-> FALSE],
   jumpdest_indices |-> argwhere(jumpdests_mask),
   total_jumpdest_number |-> Cardinality(argwhere(jumpdests_mask)),
   total_hits |-> 0,
   hits_best_bias |-> 0,
   hit_ratio |-> <<0, 1>>]

(* hit_ratio < stop_threshold and len(jumpdest_indices) >= 0 *)
search_continues(st) ==
  /\ st.hit_ratio[2] # 0
  /\ st.hit_ratio[1] * StopThresholdDen < StopThresholdNum * st.hit_ratio[2]
  /\ Cardinality(st.jumpdest_indices) >= 0

bias_hits(machine_code, push_data, jumpdest_indices) ==
  [bias \in DOMAIN machine_code |->
     Cardinality(hits_of_bias(push_data, jumpdest_indices, bias))]

(* argmax: the first position of the maximum *)
argmax(a) ==
  CHOOSE b \in DOMAIN a :
    /\ \A c \in DOMAIN a : a[c] <= a[b]
    /\ \A c \in DOMAIN a : c < b => a[c] < a[b]

(* A round that leaves the JUMPDESTs it has counted in jumpdest_indices. *)
search_round_mutant(machine_code, push_data, st) ==
  LET hits == bias_hits(machine_code, push_data, st.jumpdest_indices)
      best_bias == argmax(hits)
      hits_best_bias == hits[best_bias]
      total_hits == st.total_hits + hits_best_bias
  IN  [starting_points_mask |->
         [i \in DOMAIN machine_code |-> st.starting_points_mask[i] \/ i = best_bias],
       jumpdest_indices |-> st.jumpdest_indices,
       total_jumpdest_number |-> st.total_jumpdest_number,
       total_hits |-> total_hits,
       hits_best_bias |-> hits_best_bias,
       hit_ratio |-> <<total_hits, st.total_jumpdest_number>>]

search_round(machine_code, push_data, st) ==
  LET hits == bias_hits(machine_code, push_data, st.jumpdest_indices)
      best_bias == argmax(hits)
      hits_best_bias == hits[best_bias]
      total_hits == st.total_hits + hits_best_bias
      found == {v + best_bias :
                  v \in hits_of_bias(push_data, st.jumpdest_indices, best_bias)}
  IN  [starting_points_mask |->
         [i \in DOMAIN machine_code |-> st.starting_points_mask[i] \/ i = best_bias],
       jumpdest_indices |-> st.jumpdest_indices \ found,
       total_jumpdest_number |-> st.total_jumpdest_number,
       total_hits |-> total_hits,
       hits_best_bias |-> hits_best_bias,
       hit_ratio |-> <<total_hits, st.total_jumpdest_number>>]

(* The loop of search_contract_starts, run to its end.  A round that      *)
(* leaves every local as it was is repeated for ever: the call never       *)
(* returns.                                                                *)
RECURSIVE search_loop(_, _, _)
search_loop(machine_code, push_data, st) ==
  IF ~search_continues(st) THEN Returned(st.starting_points_mask)
  ELSE LET after == search_round(machine_code, push_data, st)
       IN  IF after = st THEN Raised("never returns")
           ELSE search_loop(machine_code, push_data, after)

search_contract_starts(machine_code, push_data_mask, jumpdests_mask) ==
  LET got == get_push_data(machine_code, push_data_mask)
  IN  IF got.raised # "" THEN got
      ELSE search_loop(machine_code, got.value, search_init(machine_code, jumpdests_mask))

(***************************************************************************)
(* __init__.py: analyze as one call, the statements of the actions below   *)
(* in sequence.                                                            *)
(***************************************************************************)
end_flags(jump, stop, return, selfdestruct) ==
  logical_and(jump, logical_and(stop, logical_and(return, selfdestruct)))

analyze(machine_code) ==
  LET pdm == tag_push_data(machine_code)
      not_push_data == invert(pdm)
      shadow(m) == logical_and(m, not_push_data.value)
      invalid == shadow(tag_invalid_mnemonics(machine_code))
      jumpdest == shadow(tag_mnemonic(machine_code, JUMPDEST))
      jump == shadow(tag_mnemonic(machine_code, JUMP))
      stop == shadow(tag_mnemonic(machine_code, STOP))
      return == shadow(tag_mnemonic(machine_code, RETURN))
      selfdestruct == shadow(tag_mnemonic(machine_code, SELFDESTRUCT))
      segs == segment_code(machine_code, jumpdest, end_flags(jump, stop, return, selfdestruct))
      v1 == validate_segment_mnemonics(machine_code, segs, invalid)
      v2 == validate_segment_jumps(machine_code, segs, pdm, jump)
      starts == search_contract_starts(machine_code, pdm, jumpdest)
      v3 == validate_segment_jumpdests(machine_code, segs, pdm, jumpdest, starts.value)
  IN  IF not_push_data.raised # "" THEN not_push_data
      ELSE IF v2.raised # "" THEN v2
      ELSE IF starts.raised # "" THEN starts
      ELSE IF v3.raised # "" THEN v3
      ELSE Returned(logical_and(v1, logical_and(v2.value, v3.value)))

(***************************************************************************)
(* State.  pc is the statement of analyze about to run; raised is the      *)
(* exception analyze ended with, "" while there is none.  search holds the *)
(* locals of search_contract_starts while it runs, push_data its list of   *)
(* push immediates, rounds the number of rounds its loop has made          *)
(* (counted up to MaxRounds).                                               *)
(***************************************************************************)
VARIABLES machine_code, pc, raised,
          push_data_mask, invalid_mnemonic_mask, jumpdest_mask, jump_mask,
          stop_mask, return_mask, selfdestruct_mask,
          start_flag_mask, end_flag_mask, segments,
          mnemonic_segment_check_mask, pushjump_segment_check_mask,
          search, push_data, rounds,
          contract_starts_mask, jumpdest_segment_check_mask,
          valid_segments_mask, subsets_indices

tagVars == <<push_data_mask, invalid_mnemonic_mask, jumpdest_mask, jump_mask,
             stop_mask, return_mask, selfdestruct_mask>>
segVars == <<start_flag_mask, end_flag_mask, segments>>
searchVars == <<search, push_data, rounds>>
checkVars == <<mnemonic_segment_check_mask, pushjump_segment_check_mask,
               contract_starts_mask, jumpdest_segment_check_mask,
               valid_segments_mask>>

vars == <<machine_code, pc, raised, tagVars, segVars, searchVars, checkVars,
          subsets_indices>>

MaxRounds == 6

Unset ==
  /\ raised = ""
  /\ push_data_mask = EmptyArray
  /\ invalid_mnemonic_mask = EmptyArray
  /\ jumpdest_mask = EmptyArray
  /\ jump_mask = EmptyArray
  /\ stop_mask = EmptyArray
  /\ return_mask = EmptyArray
  /\ selfdestruct_mask = EmptyArray
  /\ start_flag_mask = EmptyArray
  /\ end_flag_mask = EmptyArray
  /\ segments = EmptyArray
  /\ mnemonic_segment_check_mask = EmptyArray
  /\ pushjump_segment_check_mask = EmptyArray
  /\ search = search_init(EmptyArray, EmptyArray)
  /\ push_data = <<>>
  /\ rounds = 0
  /\ contract_starts_mask = EmptyArray
  /\ jumpdest_segment_check_mask = EmptyArray
  /\ valid_segments_mask = EmptyArray
  /\ subsets_indices = <<>>

(***************************************************************************)
(* analyze(machine_code)                                                   *)
(***************************************************************************)
Init ==
  /\ machine_code \in Arrays(Alphabet, MaxLen)
  /\ pc = "tag"
  /\ Unset

(* __init__.py 14-28.  When np.invert raises at line 23, the six masks    *)
(* are left as the tagger returned them.                                   *)
TagMasks ==
  /\ pc = "tag"
  /\ LET pdm == tag_push_data(machine_code)
         not_push_data == invert(pdm)
         shadow(m) == IF not_push_data.raised # "" THEN m
                      ELSE logical_and(m, not_push_data.value)
     IN  /\ push_data_mask' = pdm
         /\ invalid_mnemonic_mask' = shadow(tag_invalid_mnemonics(machine_code))
         /\ jumpdest_mask' = shadow(tag_mnemonic(machine_code, JUMPDEST))
         /\ jump_mask' = shadow(tag_mnemonic(machine_code, JUMP))
         /\ stop_mask' = shadow(tag_mnemonic(machine_code, STOP))
         /\ return_mask' = shadow(tag_mnemonic(machine_code, RETURN))
         /\ selfdestruct_mask' = shadow(tag_mnemonic(machine_code, SELFDESTRUCT))
         /\ IF not_push_data.raised # ""
            THEN pc' = "raised" /\ raised' = not_push_data.raised
            ELSE pc' = "segment" /\ raised' = raised
  /\ UNCHANGED <<machine_code, segVars, searchVars, checkVars, subsets_indices>>

(* __init__.py 32-34 *)
Segment ==
  /\ pc = "segment"
  /\ start_flag_mask' = jumpdest_mask
  /\ end_flag_mask' = end_flags(jump_mask, stop_mask, return_mask, selfdestruct_mask)
  /\ segments' = segment_code(machine_code, start_flag_mask', end_flag_mask')
  /\ pc' = "v1"
  /\ UNCHANGED <<machine_code, raised, tagVars, searchVars, checkVars, subsets_indices>>

(* __init__.py 37 *)
ValidateMnemonics ==
  /\ pc = "v1"
  /\ mnemonic_segment_check_mask' =
       validate_segment_mnemonics(machine_code, segments, invalid_mnemonic_mask)
  /\ pc' = "v2"
  /\ UNCHANGED <<machine_code, raised, tagVars, segVars, searchVars,
                 pushjump_segment_check_mask, contract_starts_mask,
                 jumpdest_segment_check_mask, valid_segments_mask, subsets_indices>>

(* __init__.py 38 *)
ValidateJumps ==
  /\ pc = "v2"
  /\ LET got == validate_segment_jumps(machine_code, segments, push_data_mask, jump_mask)
     IN  IF got.raised # ""
         THEN /\ pc' = "raised"
              /\ raised' = got.raised
              /\ UNCHANGED pushjump_segment_check_mask
         ELSE /\ pc' = "search"
              /\ pushjump_segment_check_mask' = got.value
              /\ UNCHANGED raised
  /\ UNCHANGED <<machine_code, tagVars, segVars, searchVars,
                 mnemonic_segment_check_mask, contract_starts_mask,
                 jumpdest_segment_check_mask, valid_segments_mask, subsets_indices>>

(* __init__.py 39, analyzer.py 111-120: the call, up to the loop *)
SearchStart ==
  /\ pc = "search"
  /\ LET got == get_push_data(machine_code, push_data_mask)
     IN  IF got.raised # ""
         THEN /\ pc' = "raised"
              /\ raised' = got.raised
              /\ UNCHANGED searchVars
         ELSE /\ pc' = "search_loop"
              /\ push_data' = got.value
              /\ search' = search_init(machine_code, jumpdest_mask)
              /\ rounds' = 0
              /\ UNCHANGED raised
  /\ UNCHANGED <<machine_code, tagVars, segVars, checkVars, subsets_indices>>

(* analyzer.py 122-136: one round of the loop *)
SearchRound ==
  /\ pc = "search_loop"
  /\ search_continues(search)
  /\ search' = search_round(machine_code, push_data, search)
  /\ rounds' = IF rounds < MaxRounds THEN rounds + 1 ELSE rounds
  /\ UNCHANGED <<machine_code, pc, raised, push_data, tagVars, segVars, checkVars,
                 subsets_indices>>

(* analyzer.py 122, 138: the loop ends and the mask is returned *)
SearchReturn ==
  /\ pc = "search_loop"
  /\ ~search_continues(search)
  /\ contract_starts_mask' = search.starting_points_mask
  /\ pc' = "v3"
  /\ UNCHANGED <<machine_code, raised, tagVars, segVars, searchVars,
                 mnemonic_segment_check_mask, pushjump_segment_check_mask,
                 jumpdest_segment_check_mask, valid_segments_mask, subsets_indices>>

(* __init__.py 40 *)
ValidateJumpdests ==
  /\ pc = "v3"
  /\ LET got == validate_segment_jumpdests(machine_code, segments, push_data_mask,
                                           jumpdest_mask, contract_starts_mask)
     IN  IF got.raised # ""
         THEN /\ pc' = "raised"
              /\ raised' = got.raised
              /\ UNCHANGED jumpdest_segment_check_mask
         ELSE /\ pc' = "combine"
              /\ jumpdest_segment_check_mask' = got.value
              /\ UNCHANGED raised
  /\ UNCHANGED <<machine_code, tagVars, segVars, searchVars,
                 mnemonic_segment_check_mask, pushjump_segment_check_mask,
                 contract_starts_mask, valid_segments_mask, subsets_indices>>

(* __init__.py 43-48 *)
Combine ==
  /\ pc = "combine"
  /\ valid_segments_mask' =
       logical_and(mnemonic_segment_check_mask,
                   logical_and(pushjump_segment_check_mask, jumpdest_segment_check_mask))
  /\ pc' = "done"
  /\ UNCHANGED <<machine_code, raised, tagVars, segVars, searchVars,
                 mnemonic_segment_check_mask, pushjump_segment_check_mask,
                 contract_starts_mask, jumpdest_segment_check_mask, subsets_indices>>

Next ==
  \/ TagMasks
  \/ Segment
  \/ ValidateMnemonics
  \/ ValidateJumps
  \/ SearchStart
  \/ SearchRound
  \/ SearchReturn
  \/ ValidateJumpdests
  \/ Combine

Spec == Init /\ [][Next]_vars

(***************************************************************************)
(* The helpers segment_code / segment_list and get_compound_subsets,       *)
(* called on arbitrary masks.                                              *)
(***************************************************************************)
HelperInit ==
  /\ pc = "call_segment_code"
  /\ machine_code = EmptyArray
  /\ raised = ""
  /\ push_data_mask = EmptyArray
  /\ invalid_mnemonic_mask = EmptyArray
  /\ jumpdest_mask = EmptyArray
  /\ jump_mask = EmptyArray
  /\ stop_mask = EmptyArray
  /\ return_mask = EmptyArray
  /\ selfdestruct_mask = EmptyArray
  /\ start_flag_mask \in Arrays(BOOLEAN, MaxMaskLen)
  /\ end_flag_mask \in [DOMAIN start_flag_mask -> BOOLEAN]
  /\ segments = EmptyArray
  /\ mnemonic_segment_check_mask = EmptyArray
  /\ pushjump_segment_check_mask = EmptyArray
  /\ search = search_init(EmptyArray, EmptyArray)
  /\ push_data = <<>>
  /\ rounds = 0
  /\ contract_starts_mask = EmptyArray
  /\ jumpdest_segment_check_mask = EmptyArray
  /\ valid_segments_mask = EmptyArray
  /\ subsets_indices = <<>>

CallSegmentCode ==
  /\ pc = "call_segment_code"
  /\ segments' = segment_code(machine_code, start_flag_mask, end_flag_mask)
  /\ pc' = "call_get_compound_subsets"
  /\ UNCHANGED <<machine_code, raised, tagVars, start_flag_mask, end_flag_mask,
                 searchVars, checkVars, subsets_indices>>

CallGetCompoundSubsets ==
  /\ pc = "call_get_compound_subsets"
  /\ subsets_indices' = get_compound_subsets(start_flag_mask)
  /\ pc' = "returned"
  /\ UNCHANGED <<machine_code, raised, tagVars, segVars, searchVars, checkVars>>

HelperNext == CallSegmentCode \/ CallGetCompoundSubsets

HelperSpec == HelperInit /\ [][HelperNext]_vars

(***************************************************************************)
(* validate_segment_jumpdests called with the masks and segments analyze   *)
(* computes for machine_code and an arbitrary contract entrance mask.      *)
(* analyze computes them for a bytecode that has a byte: for the empty one *)
(* np.invert raises before there is a mask.                                *)
(***************************************************************************)
JumpdestInit ==
  /\ pc = "call_validate_segment_jumpdests"
  /\ machine_code \in {a \in Arrays(FnAlphabet, MaxFnLen) : invert(tag_push_data(a)).raised = ""}
  /\ raised = ""
  /\ push_data_mask = tag_push_data(machine_code)
  /\ invalid_mnemonic_mask = EmptyArray
  /\ jumpdest_mask = logical_and(tag_mnemonic(machine_code, JUMPDEST),
                                 invert(push_data_mask).value)
  /\ jump_mask = EmptyArray
  /\ stop_mask = EmptyArray
  /\ return_mask = EmptyArray
  /\ selfdestruct_mask = EmptyArray
  /\ start_flag_mask = jumpdest_mask
  /\ end_flag_mask = [i \in DOMAIN machine_code |-> FALSE]
  /\ segments = segment_code(machine_code, start_flag_mask, end_flag_mask)
  /\ mnemonic_segment_check_mask = EmptyArray
  /\ pushjump_segment_check_mask = EmptyArray
  /\ search = search_init(EmptyArray, EmptyArray)
  /\ push_data = <<>>
  /\ rounds = 0
  /\ contract_starts_mask \in [DOMAIN machine_code -> BOOLEAN]
  /\ jumpdest_segment_check_mask = EmptyArray
  /\ valid_segments_mask = EmptyArray
  /\ subsets_indices = <<>>

CallValidateSegmentJumpdests ==
  /\ pc = "call_validate_segment_jumpdests"
  /\ LET got == validate_segment_jumpdests(machine_code, segments, push_data_mask,
                                           jumpdest_mask, contract_starts_mask)
     IN  IF got.raised # ""
         THEN /\ pc' = "raised"
              /\ raised' = got.raised
              /\ UNCHANGED jumpdest_segment_check_mask
         ELSE /\ pc' = "returned"
              /\ jumpdest_segment_check_mask' = got.value
              /\ UNCHANGED raised
  /\ UNCHANGED <<machine_code, tagVars, segVars, searchVars,
                 mnemonic_segment_check_mask, pushjump_segment_check_mask,
                 contract_starts_mask, valid_segments_mask, subsets_indices>>

JumpdestNext == CallValidateSegmentJumpdests

JumpdestSpec == JumpdestInit /\ [][JumpdestNext]_vars

(***************************************************************************)
(* Vocabulary of the properties, stated on positions rather than computed  *)
(* the way the code computes it.                                           *)
(***************************************************************************)
N == len(machine_code)
Positions == DOMAIN machine_code
Terminators == {JUMP, STOP, RETURN, SELFDESTRUCT}

IsPush(b) == b >= PUSH1 /\ b <= PUSH32
PushLen(b) == b - PUSH1 + 1

(* [a..b] is a maximal run of true positions of mask *)
IsRun(mask, a, b) ==
  /\ a \in DOMAIN mask /\ b \in DOMAIN mask /\ a <= b
  /\ \A k \in a .. b : mask[k]
  /\ (a - 1 \in DOMAIN mask => ~mask[a - 1])
  /\ (b + 1 \in DOMAIN mask => ~mask[b + 1])

(* sum of B[i] * 256^(b - i) over a..b *)
RECURSIVE FoldBigEndian(_, _, _)
FoldBigEndian(B, a, b) ==
  IF b < a THEN 0 ELSE 256 * FoldBigEndian(B, a, b - 1) + B[b]

Shadowed(i) == push_data_mask[i]
IsTerminator(i) == machine_code[i] \in Terminators /\ ~Shadowed(i)
IsJumpdest(i) == machine_code[i] = JUMPDEST /\ ~Shadowed(i)

(* the push immediates of all runs of the push-data mask *)
AllPushValues ==
  {FoldBigEndian(machine_code, r[1], r[2]) :
     r \in {q \in Positions \X Positions : IsRun(push_data_mask, q[1], q[2])}}

HitV1(k) == machine_code[k] \notin BYTECODES /\ ~Shadowed(k)
HitV2(k) ==
  /\ machine_code[k] = JUMP /\ ~Shadowed(k)
  /\ \E a \in Positions :
       IsRun(push_data_mask, a, k - 1) /\ FoldBigEndian(machine_code, a, k - 1) > N
Reachable(p, values) ==
  /\ IsJumpdest(p)
  /\ \E e \in Positions : contract_starts_mask[e] /\ (p - e) \in values
HitV3(k) == IsJumpdest(k) /\ ~Reachable(k, AllPushValues)

SegmentOf(i) == {k \in Positions : segments[k] = segments[i]}

Ended == pc \in {"done", "raised"}
TagsSet == pc # "tag"
SegmentsSet == pc \in {"v1", "v2", "search", "search_loop", "v3", "combine", "done"}
               \/ (pc = "raised" /\ N > 0)
JumpsValidated == pc \in {"search", "search_loop", "v3", "combine", "done"}
                  \/ (pc = "raised" /\ N > 0)

(***************************************************************************)
(* C1: for every bytecode and every position i, analyze returns a mask     *)
(* that is true at i exactly when no position of the segment of i is a hit *)
(* of V1, V2 or V3.                                                        *)
(***************************************************************************)
ClaimC1 ==
  (Ended /\ N > 0) =>
    /\ pc = "done"
    /\ \A i \in Positions :
         valid_segments_mask[i] <=>
           ~(\E k \in SegmentOf(i) : HitV1(k) \/ HitV2(k) \/ HitV3(k))

(***************************************************************************)
(* C2: the end mask of analyze marks every JUMP, STOP, RETURN and          *)
(* SELFDESTRUCT outside a push operand, and the position after such a      *)
(* terminator has a segment id strictly greater than the terminator's.     *)
(***************************************************************************)
ClaimC2 ==
  SegmentsSet =>
    /\ \A i \in Positions : end_flag_mask[i] <=> IsTerminator(i)
    /\ \A i \in Positions :
         (IsTerminator(i) /\ i + 1 \in Positions) => segments[i + 1] > segments[i]

(***************************************************************************)
(* C3: tag_push_data marks position i exactly when an unmarked PUSHk at    *)
(* some j < i has i within its k operand bytes, j < i <= min(j + k, N-1);  *)
(* position 0 is never marked, and a PUSHk cut short by the end of the     *)
(* bytecode marks every byte that remains.                                 *)
(***************************************************************************)
Min(a, b) == IF a <= b THEN a ELSE b

PushDataMarking ==
  TagsSet =>
    /\ DOMAIN push_data_mask = Positions
    /\ \A i \in Positions :
         push_data_mask[i] <=>
           \E j \in 0 .. (i - 1) :
             /\ IsPush(machine_code[j])
             /\ ~push_data_mask[j]
             /\ j < i /\ i <= Min(j + PushLen(machine_code[j]), N - 1)
    /\ (0 \in Positions => ~push_data_mask[0])
    /\ \A j \in Positions :
         (IsPush(machine_code[j]) /\ ~push_data_mask[j]
            /\ j + PushLen(machine_code[j]) > N - 1)
           => \A i \in (j + 1) .. (N - 1) : push_data_mask[i]

(* a PUSH2 cut short by the end of the bytecode, behind a shadowed PUSH *)
PushDataMarkingWitness ==
  /\ TagsSet
  /\ N = 4
  /\ machine_code[0] = PUSH1 /\ machine_code[1] = PUSH1
  /\ machine_code[2] = PUSH1 + 1
  /\ push_data_mask[1] /\ ~push_data_mask[2] /\ push_data_mask[3]

(***************************************************************************)
(* C4, as claimed: the ids segment_list returns are non-decreasing, every  *)
(* position with a start flag is the first index of its run of equal ids   *)
(* and every position with an end flag is the last index of its run.       *)
(***************************************************************************)
Segmented == pc \in {"call_get_compound_subsets", "returned"}
FirstOfRun(i) == (i - 1 \in DOMAIN segments) => segments[i - 1] # segments[i]
LastOfRun(i) == (i + 1 \in DOMAIN segments) => segments[i + 1] # segments[i]
NonDecreasing ==
  \A i \in DOMAIN segments : \A k \in DOMAIN segments : i <= k => segments[i] <= segments[k]

ClaimC4 ==
  Segmented =>
    /\ DOMAIN segments = DOMAIN start_flag_mask
    /\ NonDecreasing
    /\ \A i \in DOMAIN segments : start_flag_mask[i] => FirstOfRun(i)
    /\ \A i \in DOMAIN segments : end_flag_mask[i] => LastOfRun(i)

(***************************************************************************)
(* C4, amended: the ids segment_list returns are non-decreasing, every     *)
(* position with a start flag is the first index of its run, and every     *)
(* position with an end flag and no start flag is the last index of its    *)
(* run; a position with both flags opens a run that goes on after it.      *)
(***************************************************************************)
SegmentRuns ==
  Segmented =>
    /\ DOMAIN segments = DOMAIN start_flag_mask
    /\ NonDecreasing
    /\ \A i \in DOMAIN segments : start_flag_mask[i] => FirstOfRun(i)
    /\ \A i \in DOMAIN segments :
         (end_flag_mask[i] /\ ~start_flag_mask[i]) => LastOfRun(i)
    /\ \A i \in DOMAIN segments :
         (start_flag_mask[i] /\ i + 1 \in DOMAIN segments /\ ~start_flag_mask[i + 1])
           => segments[i + 1] = segments[i]

(* a position with both flags whose run goes on, before an end-only flag *)
SegmentRunsWitness ==
  /\ Segmented
  /\ len(segments) = 3
  /\ start_flag_mask[0] /\ end_flag_mask[0]
  /\ ~start_flag_mask[1] /\ end_flag_mask[1]
  /\ segments[0] = 1 /\ segments[1] = 1 /\ segments[2] = 2

(***************************************************************************)
(* C5: the loop of search_contract_starts makes at most |J| rounds, J the  *)
(* non-shadowed JUMPDEST positions, and stops after a round whose best     *)
(* score is 0.                                                             *)
(***************************************************************************)
ClaimC5 ==
  pc = "search_loop" =>
    /\ rounds <= Cardinality(argwhere(jumpdest_mask))
    /\ (rounds >= 1 /\ search.hits_best_bias = 0) => ~search_continues(search)

(***************************************************************************)
(* C6: the mask validate_segment_jumpdests returns is false exactly on the *)
(* segments holding a JUMPDEST p for which no entrance e and no push       *)
(* immediate v of any run of the push-data mask, the run ending at the     *)
(* last byte included, give p = e + v.                                     *)
(***************************************************************************)
ClaimC6 ==
  pc = "returned" =>
    \A i \in Positions :
      jumpdest_segment_check_mask[i] <=> ~(\E k \in SegmentOf(i) : HitV3(k))

(***************************************************************************)
(* C7: validate_segment_jumps returns, for every bytecode, a mask of       *)
(* length N that is false exactly on the segments holding a JUMP that      *)
(* directly follows a run of the push-data mask whose folded value is > N. *)
(***************************************************************************)
ClaimC7 ==
  JumpsValidated =>
    /\ DOMAIN pushjump_segment_check_mask = Positions
    /\ \A i \in Positions :
         pushjump_segment_check_mask[i] <=> ~(\E k \in SegmentOf(i) : HitV2(k))

(***************************************************************************)
(* C10: get_compound_subsets returns, in increasing order, exactly the     *)
(* maximal runs of true positions, each of them non-empty, and the empty   *)
(* list for an all-false or empty mask.                                    *)
(***************************************************************************)
IsRunList(mask, run) ==
  /\ run # <<>>
  /\ IsRun(mask, run[1], run[Len(run)])
  /\ \A k \in 1 .. Len(run) : run[k] = run[1] + k - 1

ClaimC10 ==
  pc = "returned" =>
    /\ \A n \in 1 .. Len(subsets_indices) : IsRunList(start_flag_mask, subsets_indices[n])
    /\ \A n \in 1 .. (Len(subsets_indices) - 1) :
         subsets_indices[n][Len(subsets_indices[n])] < subsets_indices[n + 1][1]
    /\ \A i \in DOMAIN start_flag_mask :
         start_flag_mask[i] =>
           \E n \in 1 .. Len(subsets_indices) :
             \E k \in 1 .. Len(subsets_indices[n]) : subsets_indices[n][k] = i
    /\ (argwhere(start_flag_mask) = {}) => subsets_indices = <<>>

(***************************************************************************)
(* C8: for every index t holding a terminator outside a push operand,      *)
(* analyze of the prefix machine_code[0..t] gives every position i <= t    *)
(* the verdict analyze of the whole bytecode gives it.                     *)
(***************************************************************************)
Prefix(B, t) == [i \in 0 .. t |-> B[i]]

ClaimC8 ==
  pc = "done" =>
    \A t \in Positions :
      IsTerminator(t) =>
        LET prefix == analyze(Prefix(machine_code, t))
        IN  /\ prefix.raised = ""
            /\ \A i \in 0 .. t : prefix.value[i] = valid_segments_mask[i]

(***************************************************************************)
(* C9, as claimed: the positions of the pre-entry segment, id 0, are       *)
(* classified data, and analyze of the one-byte bytecode 0x00 returns      *)
(* [data].                                                                 *)
(***************************************************************************)
LoneStop == [i \in {0} |-> STOP]

ClaimC9 ==
  /\ pc = "done" => \A i \in Positions : segments[i] = 0 => ~valid_segments_mask[i]
  /\ (Ended /\ machine_code = LoneStop) =>
       (pc = "done" /\ valid_segments_mask = [i \in {0} |-> FALSE])

(* analyze as one call agrees with analyze as the sequence of its steps *)
AnalyzeAgrees ==
  /\ pc = "done" => analyze(machine_code) = Returned(valid_segments_mask)
  /\ pc = "raised" => analyze(machine_code) = Raised(raised)
  /\ (pc = "search_loop" /\ search_continues(search)
        /\ search_round(machine_code, push_data, search) = search)
       => analyze(machine_code) = Raised("never returns")

(***************************************************************************)
(* C11: for a bytecode with no JUMPDEST outside a push operand,            *)
(* search_contract_starts returns the all-false mask: no offset, offset 0  *)
(* included, is marked as an entrance.                                     *)
(***************************************************************************)
SearchReturned == pc \in {"v3", "combine", "done"}

ClaimC11 ==
  (SearchReturned /\ argwhere(jumpdest_mask) = {}) =>
    \A i \in Positions : ~contract_starts_mask[i]

(***************************************************************************)
(* C12: at the head of the loop of search_contract_starts, before the      *)
(* first round and after every round, total_hits plus the number of        *)
(* JUMPDESTs left in jumpdest_indices is the initial number of JUMPDESTs,  *)
(* the JUMPDESTs left are among the initial ones, and total_hits is at     *)
(* most that number, so that hit_ratio, where it is a number, is at most   *)
(* 1; every round adds to total_hits its score, which is the number of     *)
(* JUMPDESTs it removes.                                                   *)
(***************************************************************************)
HitsAccounted ==
  pc = "search_loop" =>
    /\ search.total_jumpdest_number = Cardinality(argwhere(jumpdest_mask))
    /\ search.jumpdest_indices \subseteq argwhere(jumpdest_mask)
    /\ search.total_hits + Cardinality(search.jumpdest_indices)
         = search.total_jumpdest_number
    /\ search.total_hits <= search.total_jumpdest_number
    /\ search.hits_best_bias <= search.total_hits
    /\ search.hit_ratio[2] # 0 => search.hit_ratio[1] <= search.hit_ratio[2]
    /\ search_continues(search) =>
         LET after == search_round(machine_code, push_data, search)
         IN  /\ after.total_hits = search.total_hits + after.hits_best_bias
             /\ after.hits_best_bias =
                  Cardinality(search.jumpdest_indices \ after.jumpdest_indices)
             /\ after.jumpdest_indices \subseteq search.jumpdest_indices

(* two rounds, each of which has reached one of two JUMPDESTs *)
HitsAccountedWitness ==
  /\ pc = "search_loop"
  /\ rounds = 2
  /\ search.total_jumpdest_number = 2
  /\ search.total_hits = 2
  /\ search.hits_best_bias = 1
  /\ search.jumpdest_indices = {}

====
